---- MODULE Spec2Model ----
(***************************************************************************)
(* BookCourier server: the Express route handlers of src/unnamed/part_002  *)
(* (the latest variant of index.js) over the MongoDB collections users,    *)
(* books and orders.                                                       *)
(*                                                                         *)
(* A handler is an async function: it runs without interruption up to an   *)
(* `await` of a store call, and other handlers run while it is suspended.  *)
(* Every action below is one store call of one handler together with the   *)
(* synchronous code that follows it, up to the next store call or to the   *)
(* response.  The first action of a handler also takes the request in      *)
(* (verifyFBToken has accepted the bearer token and set decoded_email).    *)
(* A handler suspended between two store calls is an element of the bag    *)
(* `inflight`: its route, where it resumes and the locals it holds.        *)
(***************************************************************************)
EXTENDS Integers, FiniteSets, Sequences, Bags, TLC

VARIABLES
    users,            \* db.collection("users"): set of documents
    books,            \* db.collection("books")
    orders,           \* db.collection("orders")
    nextId,           \* ObjectId generator: next fresh id per collection
    adminEmails,      \* process.env.ADMIN_EMAILS, split
    librarianEmails,  \* process.env.LIBRARIAN_EMAILS, split
    inflight,         \* bag of the handlers suspended at an await
    out,              \* the response sent last
    wishlists,        \* db.collection("wishlists")
    now               \* the clock new Date() reads

vars == <<users, books, orders, nextId, adminEmails, librarianEmails, inflight, out,
          wishlists, now>>

(***************************************************************************)
(* Bounds of the model.                                                    *)
(***************************************************************************)
MaxInflight == 2   \* handlers suspended at the same time
MaxUsers == 2      \* documents ever inserted into users by the login runs
MaxBooks == 1      \* documents ever inserted into books
MaxOrders == 1     \* documents ever inserted into orders

(***************************************************************************)
(* Values.                                                                 *)
(***************************************************************************)
Emails == {"admin@gmail.com", "librarian@gmail.com", "user@gmail.com"}
\* The emails the allow-lists are drawn from.
ListedEmails == {"admin@gmail.com", "librarian@gmail.com"}
Names == {"", "Ada"}
Pictures == {"", "ada.png"}

\* An id string is the 24-digit hex spelling of an ObjectId: the ObjectId's
\* value and the letter case the string is written in.
IdStrings(n) == (1..n) \X {"lower", "upper"}
NoId == <<0, "lower">>

\* new ObjectId(s): hex digits are read in either case.
ObjectId(s) == s[1]

\* _id.toString(): lower-case hex.
toString(oid) == <<oid, "lower">>

\* The uid of the verified token is the identity provider's id of the account.
UidOf(email) == <<"uid", email>>

\* A suspended handler: route, next store call, decoded_email and locals.
Handler(op, pc, email) ==
    [op |-> op, pc |-> pc, email |-> email, id |-> NoId, arg |-> "",
     bookId |-> NoId, doc |-> {}, acc |-> {}]

Suspended == BagToSet(inflight)
Suspend(k) == inflight (+) SetToBag({k})
Resume(k) == inflight (-) SetToBag({k})
Step(k, k2) == (inflight (-) SetToBag({k})) (+) SetToBag({k2})
CanSuspend == BagCardinality(inflight) < MaxInflight
AllIdle == inflight = EmptyBag

\* items is the array of a list route, sorted the array of a sorted one.
NoResponse ==
    [op |-> "", email |-> "", status |-> 0, success |-> FALSE, user |-> {},
     items |-> {}, sorted |-> <<>>]

Response(op, email, status, success) ==
    [op |-> op, email |-> email, status |-> status, success |-> success, user |-> {},
     items |-> {}, sorted |-> <<>>]

(***************************************************************************)
(* POST /auth/firebase-login                                               *)
(***************************************************************************)

\* users.findOne({ email }): the documents the lookup may return.
FindUsersByName(us, email) == {u \in us : u.name = email}
FindUsersByEmail(us, email) == {u \in us : u.email = email}

\* role = "user"; admin list checked first, else librarian list.
RoleForLibrarianFirst(email, admins, librarians) ==
    IF email \in librarians THEN "librarian"
    ELSE IF email \in admins THEN "admin"
    ELSE "user"
RoleFor(email, admins, librarians) ==
    IF email \in admins THEN "admin"
    ELSE IF email \in librarians THEN "librarian"
    ELSE "user"

\* name || "Anonymous", picture || ""
OrDefault(v, d) == IF v = "" THEN d ELSE v

NewUser(email, name, picture) ==
    [uid |-> UidOf(email),
     email |-> email,
     name |-> OrDefault(name, "Anonymous"),
     profileImage |-> OrDefault(picture, ""),
     role |-> RoleFor(email, adminEmails, librarianEmails)]

\* The document as stored: the fields of d and the generated _id.
WithId(d, oid) ==
    [_id |-> oid, uid |-> d.uid, email |-> d.email, name |-> d.name,
     profileImage |-> d.profileImage, role |-> d.role]

\* The user of the response: _id as a string.
UserJson(u) ==
    [_id |-> toString(u._id), uid |-> u.uid, email |-> u.email, name |-> u.name,
     profileImage |-> u.profileImage, role |-> u.role]

PendingInserts == BagCardinality(inflight)

\* users.findOne; a user found is returned as stored, none found: newUser is
\* built and the handler awaits insertOne.
LoginFind(email, name, picture) ==
    /\ LET found == FindUsersByEmail(users, email) IN
       IF found = {}
       THEN /\ CanSuspend
            /\ Cardinality(users) + PendingInserts < MaxUsers
            /\ inflight' = Suspend([Handler("login", "insertOne", email)
                                       EXCEPT !.doc = {NewUser(email, name, picture)}])
            /\ out' = out
       ELSE \E u \in found :
            /\ out' = [Response("login", email, 200, TRUE) EXCEPT !.user = {UserJson(u)}]
            /\ inflight' = inflight
    /\ UNCHANGED <<users, books, orders, nextId, adminEmails, librarianEmails, wishlists, now>>

\* users.insertOne(newUser); res.send({ success: true, user })
LoginInsert(k) ==
    /\ k.op = "login"
    /\ k.pc = "insertOne"
    /\ \E d \in k.doc :
       LET u == WithId(d, nextId.users) IN
       /\ users' = users \cup {u}
       /\ out' = [Response("login", d.email, 200, TRUE) EXCEPT !.user = {UserJson(u)}]
    /\ nextId' = [nextId EXCEPT !.users = @ + 1]
    /\ inflight' = Resume(k)
    /\ UNCHANGED <<books, orders, adminEmails, librarianEmails, wishlists, now>>

(***************************************************************************)
(* The login route alone, on an empty users collection, for every          *)
(* configuration of the two allow-lists.                                   *)
(***************************************************************************)
InitLogin ==
    /\ users = {}
    /\ books = {}
    /\ orders = {}
    /\ nextId = [users |-> 1, books |-> 1, orders |-> 1, wishlists |-> 1]
    /\ adminEmails \in SUBSET ListedEmails
    /\ librarianEmails \in SUBSET ListedEmails
    /\ inflight = EmptyBag
    /\ out = NoResponse
    /\ wishlists = {}
    /\ now = 0

NextLogin ==
    \/ \E email \in Emails, name \in Names, picture \in Pictures :
           LoginFind(email, name, picture)
    \/ \E k \in Suspended : LoginInsert(k)

SpecLogin == InitLogin /\ [][NextLogin]_vars

\* Logins one after another: a request is taken in only when no handler is
\* suspended.
NextLoginSeq ==
    \/ \E email \in Emails, name \in Names, picture \in Pictures :
           AllIdle /\ LoginFind(email, name, picture)
    \/ \E k \in Suspended : LoginInsert(k)

SpecLoginSeq == InitLogin /\ [][NextLoginSeq]_vars

(***************************************************************************)
(* Documents and requests of the books and orders routes.                  *)
(***************************************************************************)

\* { ...a, ...b }: the fields of both, b's value where both have the field.
SpreadFirstWins(a, b) ==
    [f \in DOMAIN a \cup DOMAIN b |-> IF f \in DOMAIN a THEN a[f] ELSE b[f]]
Spread(a, b) ==
    [f \in DOMAIN a \cup DOMAIN b |-> IF f \in DOMAIN b THEN b[f] ELSE a[f]]

\* collection.findOne(filter): no document, or one of those that match.
FindOne(matching) == IF matching = {} THEN {{}} ELSE {{d} : d \in matching}

\* if (!user || user.role !== role) return res.status(403)
ForbiddenNoUser(found, role) == found = {}
Forbidden(found, role) == found = {} \/ \E u \in found : u.role # role

BookById(bs, oid) == {b \in bs : b._id = oid}
OrderById(os, oid) == {o \in os : o._id = oid}

(***************************************************************************)
(* POST /books                                                             *)
(***************************************************************************)
\* book = { ...req.body, createdAt: new Date(), librarianEmail: req.decoded_email }
NewBook(email, body) ==
    Spread(body, [createdAt |-> now, librarianEmail |-> email])

\* books.insertOne(book); res.send({ success: true, id })
InsertBook(email, body) ==
    /\ books' = books \cup {Spread(NewBook(email, body), [_id |-> nextId.books])}
    /\ nextId' = [nextId EXCEPT !.books = @ + 1]
    /\ out' = Response("postBook", email, 200, TRUE)
    /\ UNCHANGED <<users, orders, adminEmails, librarianEmails, inflight, wishlists, now>>

\* The route, for as many books as the model inserts.
PostBook(email, body) ==
    /\ nextId.books <= MaxBooks
    /\ InsertBook(email, body)

(***************************************************************************)
(* POST /orders                                                            *)
(***************************************************************************)
\* order = { ...req.body, email: req.decoded_email, status: "pending",
\*           paymentStatus: "unpaid", createdAt: new Date() }; orders.insertOne(order)
NewOrder(email, body) ==
    Spread(body, [email |-> email, status |-> "pending", paymentStatus |-> "unpaid",
                  createdAt |-> now])

Place(email, body) ==
    /\ nextId.orders <= MaxOrders
    /\ orders' = orders \cup {Spread(NewOrder(email, body), [_id |-> nextId.orders])}
    /\ nextId' = [nextId EXCEPT !.orders = @ + 1]
    /\ out' = Response("place", email, 200, TRUE)
    /\ UNCHANGED <<users, books, adminEmails, librarianEmails, inflight, wishlists, now>>

(***************************************************************************)
(* PUT /users/cancel/:id and PUT /users/pay/:id                            *)
(***************************************************************************)
\* if (!order || order.email !== req.decoded_email) return res.status(403)
NotOwnOrderAnyOrder(found, email) == found = {}
NotOwnOrder(found, email) == found = {} \/ \E o \in found : o.email # email

\* orders.updateOne({ _id }, { $set: { [field]: value } })
SetOrderFieldToggle(os, oid, field, value) ==
    {IF o._id = oid
     THEN [o EXCEPT ![field] = IF @ = value THEN "reverted" ELSE value]
     ELSE o : o \in os}
SetOrderField(os, oid, field, value) ==
    {IF o._id = oid THEN [o EXCEPT ![field] = value] ELSE o : o \in os}

\* result.modifiedCount > 0: a document matched and the $set changed it.
Modified(os, oid, field, value) ==
    \E o \in OrderById(os, oid) : o[field] # value

\* The field and the value the route sets.
UserSets(op) ==
    IF op = "cancel" THEN [field |-> "status", value |-> "cancelled"]
    ELSE [field |-> "paymentStatus", value |-> "paid"]

\* orders.findOne({ _id }) and the ownership test; op is "cancel" or "pay".
UserOrderFind(op, email, id) ==
    /\ \E found \in FindOne(OrderById(orders, ObjectId(id))) :
         IF NotOwnOrder(found, email)
         THEN /\ out' = Response(op, email, 403, FALSE)
              /\ inflight' = inflight
         ELSE /\ CanSuspend
              /\ inflight' = Suspend([Handler(op, "updateOne", email) EXCEPT !.id = id])
              /\ out' = out
    /\ UNCHANGED <<users, books, orders, nextId, adminEmails, librarianEmails, wishlists, now>>

\* orders.updateOne; res.send({ success: result.modifiedCount > 0 })
UserOrderUpdate(k) ==
    /\ k.op \in {"cancel", "pay"}
    /\ k.pc = "updateOne"
    /\ LET s == UserSets(k.op) IN
       /\ orders' = SetOrderField(orders, ObjectId(k.id), s.field, s.value)
       /\ out' = Response(k.op, k.email, 200, Modified(orders, ObjectId(k.id), s.field, s.value))
    /\ inflight' = Resume(k)
    /\ UNCHANGED <<users, books, nextId, adminEmails, librarianEmails, wishlists, now>>

(***************************************************************************)
(* PATCH /librarian/orders/:id/status                                      *)
(***************************************************************************)
validStatusAndCancelled == {"pending", "shipped", "delivered", "cancelled"}
validStatus == {"pending", "shipped", "delivered"}

\* What the requester gets when the handler throws (book is null and
\* book.librarianEmail is read): the rejection of an async handler is not
\* caught by the route, so no response is sent (status 0 here), or the
\* framework's error handler answers 500.
ThrownStatuses == {0, 500}

\* book.librarianEmail !== req.decoded_email
NotOwnBookNever(book, email) == FALSE
NotOwnBook(book, email) == book.librarianEmail # email

\* users.findOne, the role test and the status test.
UpdateStatusGate(email, id, status) ==
    /\ \E found \in FindOne(FindUsersByEmail(users, email)) :
         IF Forbidden(found, "librarian")
         THEN /\ out' = Response("updateStatus", email, 403, FALSE)
              /\ inflight' = inflight
         ELSE IF status \notin validStatus
         THEN /\ out' = Response("updateStatus", email, 400, FALSE)
              /\ inflight' = inflight
         ELSE /\ CanSuspend
              /\ inflight' = Suspend([Handler("updateStatus", "findOrder", email)
                                         EXCEPT !.id = id, !.arg = status])
              /\ out' = out
    /\ UNCHANGED <<users, books, orders, nextId, adminEmails, librarianEmails, wishlists, now>>

\* orders.findOne({ _id }); if (!order) return res.status(404)
UpdateStatusFindOrder(k) ==
    /\ k.op = "updateStatus"
    /\ k.pc = "findOrder"
    /\ \E found \in FindOne(OrderById(orders, ObjectId(k.id))) :
         IF found = {}
         THEN /\ out' = Response("updateStatus", k.email, 404, FALSE)
              /\ inflight' = Resume(k)
         ELSE \E order \in found :
              /\ inflight' = Step(k, [k EXCEPT !.pc = "findBook", !.bookId = order.bookId])
              /\ out' = out
    /\ UNCHANGED <<users, books, orders, nextId, adminEmails, librarianEmails, wishlists, now>>

\* books.findOne({ _id: new ObjectId(order.bookId) });
\* if (book.librarianEmail !== req.decoded_email) return res.status(403)
UpdateStatusFindBook(k) ==
    /\ k.op = "updateStatus"
    /\ k.pc = "findBook"
    /\ \E found \in FindOne(BookById(books, ObjectId(k.bookId))) :
         IF found = {}
         THEN /\ \E st \in ThrownStatuses : out' = Response("updateStatus", k.email, st, FALSE)
              /\ inflight' = Resume(k)
         ELSE \E book \in found :
              IF NotOwnBook(book, k.email)
              THEN /\ out' = Response("updateStatus", k.email, 403, FALSE)
                   /\ inflight' = Resume(k)
              ELSE /\ inflight' = Step(k, [k EXCEPT !.pc = "updateOne"])
                   /\ out' = out
    /\ UNCHANGED <<users, books, orders, nextId, adminEmails, librarianEmails, wishlists, now>>

\* orders.updateOne({ _id }, { $set: { status } })
UpdateStatusUpdate(k) ==
    /\ k.op = "updateStatus"
    /\ k.pc = "updateOne"
    /\ orders' = SetOrderField(orders, ObjectId(k.id), "status", k.arg)
    /\ out' = Response("updateStatus", k.email, 200,
                       Modified(orders, ObjectId(k.id), "status", k.arg))
    /\ inflight' = Resume(k)
    /\ UNCHANGED <<users, books, nextId, adminEmails, librarianEmails, wishlists, now>>

(***************************************************************************)
(* DELETE /admin/books/:id                                                 *)
(***************************************************************************)
\* orders.deleteMany({ bookId }): bookId is req.params.id, compared as a
\* string with the bookId string each order stores.
DeleteManyNone(os, bookId) == os
DeleteMany(os, bookId) == {o \in os : o.bookId # bookId}

\* books.deleteOne({ _id: new ObjectId(bookId) })
DeleteOne(bs, oid) == {b \in bs : b._id # oid}

DeleteBookGate(email, id) ==
    /\ \E found \in FindOne(FindUsersByEmail(users, email)) :
         IF Forbidden(found, "admin")
         THEN /\ out' = Response("deleteBook", email, 403, FALSE)
              /\ inflight' = inflight
         ELSE /\ CanSuspend
              /\ inflight' = Suspend([Handler("deleteBook", "deleteMany", email)
                                         EXCEPT !.id = id])
              /\ out' = out
    /\ UNCHANGED <<users, books, orders, nextId, adminEmails, librarianEmails, wishlists, now>>

DeleteBookOrders(k) ==
    /\ k.op = "deleteBook"
    /\ k.pc = "deleteMany"
    /\ orders' = DeleteMany(orders, k.id)
    /\ inflight' = Step(k, [k EXCEPT !.pc = "deleteOne"])
    /\ UNCHANGED <<users, books, nextId, adminEmails, librarianEmails, out, wishlists, now>>

\* res.send({ success: result.deletedCount > 0 })
DeleteBookDoc(k) ==
    /\ k.op = "deleteBook"
    /\ k.pc = "deleteOne"
    /\ books' = DeleteOne(books, ObjectId(k.id))
    /\ out' = Response("deleteBook", k.email, 200, BookById(books, ObjectId(k.id)) # {})
    /\ inflight' = Resume(k)
    /\ UNCHANGED <<users, orders, nextId, adminEmails, librarianEmails, wishlists, now>>

(***************************************************************************)
(* PATCH /librarian/books/:id                                              *)
(***************************************************************************)
\* The filter { _id: new ObjectId(req.params.id), librarianEmail: req.decoded_email }
BookFilterIdOnly(b, oid, email) == b._id = oid
BookFilter(b, oid, email) == b._id = oid /\ b.librarianEmail = email

\* books.updateOne(filter, { $set: { status, title, author, price, description } });
\* title stands for the four fields that are only ever set here.
PatchBooks(bs, oid, email, fields) ==
    {IF BookFilter(b, oid, email) THEN Spread(b, fields) ELSE b : b \in bs}

PatchModified(bs, oid, email, fields) ==
    \E b \in bs : BookFilter(b, oid, email) /\ Spread(b, fields) # b

PatchBookGate(email, id, fields) ==
    /\ \E found \in FindOne(FindUsersByEmail(users, email)) :
         IF Forbidden(found, "librarian")
         THEN /\ out' = Response("patchBook", email, 403, FALSE)
              /\ inflight' = inflight
         ELSE /\ CanSuspend
              /\ inflight' = Suspend([Handler("patchBook", "updateOne", email)
                                         EXCEPT !.id = id, !.doc = {fields}])
              /\ out' = out
    /\ UNCHANGED <<users, books, orders, nextId, adminEmails, librarianEmails, wishlists, now>>

PatchBookUpdate(k) ==
    /\ k.op = "patchBook"
    /\ k.pc = "updateOne"
    /\ \E fields \in k.doc :
         /\ books' = PatchBooks(books, ObjectId(k.id), k.email, fields)
         /\ out' = Response("patchBook", k.email, 200,
                            PatchModified(books, ObjectId(k.id), k.email, fields))
    /\ inflight' = Resume(k)
    /\ UNCHANGED <<users, orders, nextId, adminEmails, librarianEmails, wishlists, now>>

(***************************************************************************)
(* PATCH /admin/books/:id/status                                           *)
(***************************************************************************)
\* books.updateOne({ _id }, { $set: { status } })
SetBookStatus(bs, oid, status) ==
    {IF b._id = oid THEN [b EXCEPT !.status = status] ELSE b : b \in bs}

BookStatusGate(email, id, status) ==
    /\ \E found \in FindOne(FindUsersByEmail(users, email)) :
         IF Forbidden(found, "admin")
         THEN /\ out' = Response("bookStatus", email, 403, FALSE)
              /\ inflight' = inflight
         ELSE /\ CanSuspend
              /\ inflight' = Suspend([Handler("bookStatus", "updateOne", email)
                                         EXCEPT !.id = id, !.arg = status])
              /\ out' = out
    /\ UNCHANGED <<users, books, orders, nextId, adminEmails, librarianEmails, wishlists, now>>

BookStatusUpdate(k) ==
    /\ k.op = "bookStatus"
    /\ k.pc = "updateOne"
    /\ books' = SetBookStatus(books, ObjectId(k.id), k.arg)
    /\ out' = Response("bookStatus", k.email, 200,
                       \E b \in BookById(books, ObjectId(k.id)) : b.status # k.arg)
    /\ inflight' = Resume(k)
    /\ UNCHANGED <<users, orders, nextId, adminEmails, librarianEmails, wishlists, now>>

(***************************************************************************)
(* The books and orders routes over a database in which every principal    *)
(* has logged in: the allow-lists are those of src/index.js.               *)
(***************************************************************************)
ProvisionedUsers ==
    {[_id |-> 1, uid |-> UidOf("admin@gmail.com"), email |-> "admin@gmail.com",
      name |-> "Anonymous", profileImage |-> "", role |-> "admin"],
     [_id |-> 2, uid |-> UidOf("librarian@gmail.com"), email |-> "librarian@gmail.com",
      name |-> "Anonymous", profileImage |-> "", role |-> "librarian"],
     [_id |-> 3, uid |-> UidOf("user@gmail.com"), email |-> "user@gmail.com",
      name |-> "Anonymous", profileImage |-> "", role |-> "user"]}

Init ==
    /\ users = ProvisionedUsers
    /\ books = {}
    /\ orders = {}
    /\ nextId = [users |-> 4, books |-> 1, orders |-> 1, wishlists |-> 1]
    /\ adminEmails = {"admin@gmail.com"}
    /\ librarianEmails = {"librarian@gmail.com"}
    /\ inflight = EmptyBag
    /\ out = NoResponse
    /\ wishlists = {}
    /\ now = 0

\* The principals whose requests are drawn, by what the routes ask of them:
\* the librarian and a plain user post books, place orders and act on
\* orders; the admin and a plain user ask for deletions.
Members == {"librarian@gmail.com", "user@gmail.com"}
Deleters == {"admin@gmail.com", "user@gmail.com"}

\* Request bodies and parameters.  An order body names a book id, of a book
\* that exists or not, and may carry values for the fields the server sets.
BookBodies == {[status |-> "published", title |-> "Emma"]}
ForgedOrderFields ==
    [email |-> "admin@gmail.com", status |-> "delivered", paymentStatus |-> "paid"]
OrderBodies(bookIds) ==
    {[bookId |-> b] : b \in bookIds} \cup {Spread([bookId |-> b], ForgedOrderFields) : b \in bookIds}
BookIds == {toString(n) : n \in 1..MaxBooks}
OrderIds == {toString(n) : n \in 1..MaxOrders}
RequestedStatuses == validStatus \cup {"cancelled", "returned"}

\* The continuations of the suspended handlers of the orders routes.
ContinueOrders ==
    \/ \E k \in Suspended : UserOrderUpdate(k)
    \/ \E k \in Suspended : UpdateStatusFindOrder(k)
    \/ \E k \in Suspended : UpdateStatusFindBook(k)
    \/ \E k \in Suspended : UpdateStatusUpdate(k)

ContinueDelete ==
    \/ \E k \in Suspended : DeleteBookOrders(k)
    \/ \E k \in Suspended : DeleteBookDoc(k)

\* Requests handled one after another: a request is taken in only when no
\* handler is suspended.
Next ==
    \/ AllIdle /\ \E email \in Members, body \in BookBodies : PostBook(email, body)
    \/ AllIdle /\ \E email \in Members, body \in OrderBodies(BookIds) : Place(email, body)
    \/ AllIdle /\ \E op \in {"cancel", "pay"}, email \in Members, id \in OrderIds :
                      UserOrderFind(op, email, id)
    \/ AllIdle /\ \E email \in Members, id \in OrderIds, status \in RequestedStatuses :
                      UpdateStatusGate(email, id, status)
    \/ AllIdle /\ \E email \in Deleters, id \in BookIds : DeleteBookGate(email, id)
    \/ ContinueOrders
    \/ ContinueDelete

Spec == Init /\ [][Next]_vars

(***************************************************************************)
(* The books routes, with up to MaxInflight handlers suspended together.    *)
(***************************************************************************)
BookStatuses == {"published", "unpublished"}
NewBookBodies == {[status |-> st, title |-> "Emma"] : st \in BookStatuses}
PatchBodies == {[status |-> st, title |-> t] : st \in BookStatuses, t \in {"Emma", "Ulysses"}}

ContinueBooks ==
    \/ \E k \in Suspended : PatchBookUpdate(k)
    \/ \E k \in Suspended : BookStatusUpdate(k)

NextBooks ==
    \/ \E email \in Members, body \in NewBookBodies : PostBook(email, body)
    \/ \E email \in Members, id \in BookIds, fields \in PatchBodies :
           PatchBookGate(email, id, fields)
    \/ \E email \in Deleters, id \in BookIds, status \in BookStatuses :
           BookStatusGate(email, id, status)
    \/ \E email \in Deleters, id \in BookIds : DeleteBookGate(email, id)
    \/ ContinueBooks
    \/ ContinueDelete

SpecBooks == Init /\ [][NextBooks]_vars

(***************************************************************************)
(* Cascade delete, one request after another: books are posted, orders are *)
(* placed and books are deleted; a book id is written in either letter     *)
(* case, in the order's body and in the path of the delete request.        *)
(***************************************************************************)
NextCascade ==
    \/ AllIdle /\ \E email \in Members, body \in BookBodies : PostBook(email, body)
    \/ AllIdle /\ \E email \in Members, body \in OrderBodies(IdStrings(MaxBooks)) :
                      Place(email, body)
    \/ AllIdle /\ \E email \in Deleters, id \in IdStrings(MaxBooks) :
                      DeleteBookGate(email, id)
    \/ ContinueDelete

SpecCascade == Init /\ [][NextCascade]_vars

(***************************************************************************)
(* GET /books and GET /books/latest                                        *)
(***************************************************************************)
MaxCatalog == 7    \* books ever inserted into the catalogue
MaxClock == 3      \* readings of the clock after the first

\* limit(6)
LatestLimit == 6

\* { ...b, _id: b._id.toString() }
BookJson(b) == [b EXCEPT !._id = toString(@)]

\* books.find({ status: "published" })
PublishedOrNot(bs) == bs
Published(bs) == {b \in bs : b.status = "published"}

\* sort({ createdAt: -1 }): the arrays the store may answer with; documents of
\* the same createdAt come in any order.
RECURSIVE SortedDesc(_)
SortedDesc(S) ==
    IF S = {} THEN {<<>>}
    ELSE UNION {{<<b>> \o t : t \in SortedDesc(S \ {b})} :
                   b \in {x \in S : \A y \in S : y.createdAt <= x.createdAt}}

\* limit(n)
LimitOneMore(s, n) == SubSeq(s, 1, IF Len(s) < n + 1 THEN Len(s) ELSE n + 1)
Limit(s, n) == SubSeq(s, 1, IF Len(s) < n THEN Len(s) ELSE n)

\* data.map((b) => ({ ...b, _id: b._id.toString() }))
BookJsons(s) == [i \in 1..Len(s) |-> BookJson(s[i])]

\* GET /books: no token is asked for.
ListPublished ==
    /\ out' = [Response("listPublished", "", 200, TRUE)
                  EXCEPT !.items = {BookJson(b) : b \in Published(books)}]
    /\ UNCHANGED <<users, books, orders, nextId, adminEmails, librarianEmails, inflight,
                   wishlists, now>>

\* GET /books/latest
ListLatest ==
    /\ \E s \in SortedDesc(Published(books)) :
          out' = [Response("listLatest", "", 200, TRUE)
                     EXCEPT !.sorted = BookJsons(Limit(s, LatestLimit))]
    /\ UNCHANGED <<users, books, orders, nextId, adminEmails, librarianEmails, inflight,
                   wishlists, now>>

\* The clock moves on between two inserts; time that passes with nothing
\* inserted is not told apart.
Tick ==
    /\ now < MaxClock
    /\ \E b \in books : b.createdAt = now
    /\ now' = now + 1
    /\ UNCHANGED <<users, books, orders, nextId, adminEmails, librarianEmails, inflight,
                   out, wishlists>>

\* A book is posted as a draft under one title or as published under another:
\* the title tells what the status was at the insert.  The requests drawn
\* insert up to two books at one reading of the clock, and a draft when no
\* book is a draft.
CatalogBodies ==
    {[status |-> "draft", title |-> "Emma"], [status |-> "published", title |-> "Ulysses"]}

NextCatalog ==
    \/ /\ AllIdle
       /\ nextId.books <= MaxCatalog
       /\ \A b1, b2 \in books : b1.createdAt = now /\ b2.createdAt = now => b1 = b2
       /\ \E body \in CatalogBodies :
             /\ body.status = "draft" => \A b \in books : b.status # "draft"
             /\ InsertBook("librarian@gmail.com", body)
    \/ AllIdle /\ Tick
    \/ AllIdle /\ \E id \in BookIds, status \in {"draft", "published"} :
                      BookStatusGate("admin@gmail.com", id, status)
    \/ \E k \in Suspended : BookStatusUpdate(k)
    \/ AllIdle /\ ListPublished
    \/ AllIdle /\ ListLatest

SpecCatalog == Init /\ [][NextCatalog]_vars

(***************************************************************************)
(* GET /users/invoices                                                     *)
(***************************************************************************)
\* s.slice(-n): the last n characters of the spelling of an id.
Slice(s, n) == [last |-> n, of |-> s[1], case |-> s[2]]

\* s.toUpperCase()
toUpperCase(s) == [s EXCEPT !.case = "upper"]

\* o[field] || d: the field when the document has it and it is not falsy,
\* for a field that holds a number and for one that holds a string.
NumberOr(o, field, d) ==
    IF field \in DOMAIN o /\ o[field] # 0 THEN o[field] ELSE d
StringOr(o, field, d) ==
    IF field \in DOMAIN o /\ o[field] # "" THEN o[field] ELSE d

\* orders.find({ email: req.decoded_email, paymentStatus: "paid" })
PaidOrdersOf(os, email) == {o \in os : o.email = email /\ o.paymentStatus = "paid"}

\* The invoice of order o, found being what books.findOne has answered.
Invoice(o, found) ==
    [_id |-> toString(o._id),
     paymentId |-> toUpperCase(Slice(toString(o._id), 8)),
     bookTitle |-> IF \E b \in found : StringOr(b, "title", "") # ""
                   THEN (CHOOSE b \in found : TRUE).title
                   ELSE StringOr(o, "bookTitle", "Unknown"),
     amount |-> NumberOr(o, "price", 0),
     date |-> o.createdAt]

\* orders.find(...).toArray(); with no paid order Promise.all([]) makes no
\* store call and the answer is sent.
InvoicesFind(email) ==
    /\ LET userOrders == PaidOrdersOf(orders, email) IN
       IF userOrders = {}
       THEN /\ out' = Response("invoices", email, 200, TRUE)
            /\ inflight' = inflight
       ELSE /\ CanSuspend
            /\ inflight' = Suspend([Handler("invoices", "findBook", email)
                                       EXCEPT !.doc = userOrders])
            /\ out' = out
    /\ UNCHANGED <<users, books, orders, nextId, adminEmails, librarianEmails, wishlists, now>>

\* One books.findOne of the Promise.all; the answer is sent with the last.
InvoicesBook(k) ==
    /\ k.op = "invoices"
    /\ k.pc = "findBook"
    /\ \E o \in k.doc : \E found \in FindOne(BookById(books, ObjectId(o.bookId))) :
         LET acc == k.acc \cup {Invoice(o, found)} IN
         IF k.doc = {o}
         THEN /\ out' = [Response("invoices", k.email, 200, TRUE) EXCEPT !.items = acc]
              /\ inflight' = Resume(k)
         ELSE /\ inflight' = Step(k, [k EXCEPT !.doc = @ \ {o}, !.acc = acc])
              /\ out' = out
    /\ UNCHANGED <<users, books, orders, nextId, adminEmails, librarianEmails, wishlists, now>>

\* Books of price 20; the body of an order names the book and carries no
\* price, the book's price or another price.
PricedBookBodies == {[status |-> "published", title |-> "Emma", price |-> 20]}
PricedOrderBodies ==
    {[bookId |-> b] : b \in BookIds}
        \cup {[bookId |-> b, price |-> p] : b \in BookIds, p \in {20, 5}}

NextInvoices ==
    \/ AllIdle /\ \E body \in PricedBookBodies : PostBook("librarian@gmail.com", body)
    \/ AllIdle /\ \E email \in Members, body \in PricedOrderBodies : Place(email, body)
    \/ AllIdle /\ \E email \in Members, id \in OrderIds : UserOrderFind("pay", email, id)
    \/ \E k \in Suspended : UserOrderUpdate(k)
    \/ AllIdle /\ \E email \in Members : InvoicesFind(email)
    \/ \E k \in Suspended : InvoicesBook(k)

SpecInvoices == Init /\ [][NextInvoices]_vars

(***************************************************************************)
(* POST /wishlist, GET /wishlist, DELETE /wishlist/:id                     *)
(***************************************************************************)
MaxWishes == 2     \* documents ever inserted into wishlists

\* wishlists.findOne({ email, bookId }): bookId is compared as the body gave it.
SamePairNever(w, email, bookId) == FALSE
SamePair(w, email, bookId) == w.email = email /\ w.bookId = bookId

WishById(ws, oid) == {w \in ws : w._id = oid}

\* POST /wishlist up to insertOne; a body without bookId carries NoId here.
WishAddFind(email, bookId) ==
    /\ IF bookId = NoId
       THEN /\ out' = Response("wishAdd", email, 400, FALSE)
            /\ inflight' = inflight
       ELSE \E exists \in FindOne({w \in wishlists : SamePair(w, email, bookId)}) :
            IF exists # {}
            THEN /\ out' = Response("wishAdd", email, 400, FALSE)
                 /\ inflight' = inflight
            ELSE /\ CanSuspend
                 /\ Cardinality(wishlists) + BagCardinality(inflight) < MaxWishes
                 /\ inflight' = Suspend([Handler("wishAdd", "insertOne", email)
                                            EXCEPT !.bookId = bookId,
                                                   !.doc = {[email |-> email, bookId |-> bookId,
                                                             createdAt |-> now]}])
                 /\ out' = out
    /\ UNCHANGED <<users, books, orders, nextId, adminEmails, librarianEmails, wishlists, now>>

\* wishlists.insertOne(item); res.send({ success: true, id })
WishAddInsert(k) ==
    /\ k.op = "wishAdd"
    /\ k.pc = "insertOne"
    /\ \E item \in k.doc :
          wishlists' = wishlists \cup {Spread(item, [_id |-> nextId.wishlists])}
    /\ nextId' = [nextId EXCEPT !.wishlists = @ + 1]
    /\ out' = Response("wishAdd", k.email, 200, TRUE)
    /\ inflight' = Resume(k)
    /\ UNCHANGED <<users, books, orders, adminEmails, librarianEmails, now>>

\* { ...w, _id: w._id.toString(), book: book ? { ...book, _id } : null };
\* the book is a set here, empty for null.
WishJson(w, found) ==
    Spread(w, [_id |-> toString(w._id), book |-> {BookJson(b) : b \in found}])

\* wishlists.find({ email }).toArray(); with no item Promise.all([]) makes no
\* store call and the answer is sent.
WishListFind(email) ==
    /\ LET data == {w \in wishlists : w.email = email} IN
       IF data = {}
       THEN /\ out' = Response("wishList", email, 200, TRUE)
            /\ inflight' = inflight
       ELSE /\ CanSuspend
            /\ inflight' = Suspend([Handler("wishList", "findBook", email) EXCEPT !.doc = data])
            /\ out' = out
    /\ UNCHANGED <<users, books, orders, nextId, adminEmails, librarianEmails, wishlists, now>>

\* One books.findOne of the Promise.all; the answer is sent with the last.
WishListBook(k) ==
    /\ k.op = "wishList"
    /\ k.pc = "findBook"
    /\ \E w \in k.doc : \E found \in FindOne(BookById(books, ObjectId(w.bookId))) :
         LET acc == k.acc \cup {WishJson(w, found)} IN
         IF k.doc = {w}
         THEN /\ out' = [Response("wishList", k.email, 200, TRUE) EXCEPT !.items = acc]
              /\ inflight' = Resume(k)
         ELSE /\ inflight' = Step(k, [k EXCEPT !.doc = @ \ {w}, !.acc = acc])
              /\ out' = out
    /\ UNCHANGED <<users, books, orders, nextId, adminEmails, librarianEmails, wishlists, now>>

\* DELETE /wishlist/:id up to deleteOne
WishDeleteFind(email, id) ==
    /\ \E item \in FindOne(WishById(wishlists, ObjectId(id))) :
         IF item = {} \/ \E w \in item : w.email # email
         THEN /\ out' = Response("wishDelete", email, 403, FALSE)
              /\ inflight' = inflight
         ELSE /\ CanSuspend
              /\ inflight' = Suspend([Handler("wishDelete", "deleteOne", email) EXCEPT !.id = id])
              /\ out' = out
    /\ UNCHANGED <<users, books, orders, nextId, adminEmails, librarianEmails, wishlists, now>>

\* wishlists.deleteOne({ _id }); res.send({ success: true })
WishDeleteOne(k) ==
    /\ k.op = "wishDelete"
    /\ k.pc = "deleteOne"
    /\ wishlists' = {w \in wishlists : w._id # ObjectId(k.id)}
    /\ out' = Response("wishDelete", k.email, 200, TRUE)
    /\ inflight' = Resume(k)
    /\ UNCHANGED <<users, books, orders, nextId, adminEmails, librarianEmails, now>>

WishIds == {toString(n) : n \in 1..MaxWishes}

\* Adds and deletes with up to MaxInflight handlers suspended together.
NextWishlist ==
    \/ \E email \in Members, bookId \in BookIds \cup {NoId} : WishAddFind(email, bookId)
    \/ \E k \in Suspended : WishAddInsert(k)
    \/ \E email \in Members, id \in WishIds : WishDeleteFind(email, id)
    \/ \E k \in Suspended : WishDeleteOne(k)

SpecWishlist == Init /\ [][NextWishlist]_vars

\* The wishlist routes, one request after another.
NextWishlistSeq ==
    \/ AllIdle /\ \E email \in Members, body \in BookBodies : PostBook(email, body)
    \/ AllIdle /\ \E email \in Members, bookId \in BookIds \cup {NoId} :
                      WishAddFind(email, bookId)
    \/ \E k \in Suspended : WishAddInsert(k)
    \/ AllIdle /\ \E email \in Members : WishListFind(email)
    \/ \E k \in Suspended : WishListBook(k)
    \/ AllIdle /\ \E email \in Members, id \in WishIds : WishDeleteFind(email, id)
    \/ \E k \in Suspended : WishDeleteOne(k)

SpecWishlistSeq == Init /\ [][NextWishlistSeq]_vars

(***************************************************************************)
(* GET /admin/users, PATCH /admin/users/:id/role, GET /admin/books         *)
(***************************************************************************)
\* users.findOne({ email }) and the role test of an admin route; next is the
\* store call the handler goes on to.
AdminGate(op, next, email, id, arg) ==
    /\ \E found \in FindOne(FindUsersByEmail(users, email)) :
         IF Forbidden(found, "admin")
         THEN /\ out' = Response(op, email, 403, FALSE)
              /\ inflight' = inflight
         ELSE /\ CanSuspend
              /\ inflight' = Suspend([Handler(op, next, email) EXCEPT !.id = id, !.arg = arg])
              /\ out' = out
    /\ UNCHANGED <<users, books, orders, nextId, adminEmails, librarianEmails, wishlists, now>>

AdminUsersGate(email) == AdminGate("adminUsers", "find", email, NoId, "")

\* users.find({}).toArray(); res.send({ success: true, users })
AdminUsersFind(k) ==
    /\ k.op = "adminUsers"
    /\ k.pc = "find"
    /\ out' = [Response("adminUsers", k.email, 200, TRUE)
                  EXCEPT !.items = {UserJson(u) : u \in users}]
    /\ inflight' = Resume(k)
    /\ UNCHANGED <<users, books, orders, nextId, adminEmails, librarianEmails, wishlists, now>>

AdminBooksGate(email) == AdminGate("adminBooks", "find", email, NoId, "")

\* books.find({}).toArray(); res.send({ success: true, books })
AdminBooksFind(k) ==
    /\ k.op = "adminBooks"
    /\ k.pc = "find"
    /\ out' = [Response("adminBooks", k.email, 200, TRUE)
                  EXCEPT !.items = {BookJson(b) : b \in books}]
    /\ inflight' = Resume(k)
    /\ UNCHANGED <<users, books, orders, nextId, adminEmails, librarianEmails, wishlists, now>>

\* users.updateOne({ _id }, { $set: { role: req.body.role } })
SetUserRoleOfAll(us, oid, role) == {[u EXCEPT !.role = role] : u \in us}
SetUserRole(us, oid, role) ==
    {IF u._id = oid THEN [u EXCEPT !.role = role] ELSE u : u \in us}

RoleUpdateGate(email, id, role) == AdminGate("roleUpdate", "updateOne", email, id, role)

\* users.updateOne; res.send({ success: result.modifiedCount > 0 })
RoleUpdateUpdate(k) ==
    /\ k.op = "roleUpdate"
    /\ k.pc = "updateOne"
    /\ users' = SetUserRole(users, ObjectId(k.id), k.arg)
    /\ out' = Response("roleUpdate", k.email, 200,
                       \E u \in users : u._id = ObjectId(k.id) /\ u.role # k.arg)
    /\ inflight' = Resume(k)
    /\ UNCHANGED <<books, orders, nextId, adminEmails, librarianEmails, wishlists, now>>

\* The principals of the requests to the admin routes: the admin, a plain
\* user and a principal that has never logged in.
AdminRequesters == {"admin@gmail.com", "user@gmail.com", "ghost@gmail.com"}

\* The role a role update carries is whatever the body holds.
RoleValues == {"user", "librarian", "admin", "owner"}

\* The users a role update names: the librarian and the plain user.
UserIds == {toString(2), toString(3)}

AdminOps == {"adminUsers", "roleUpdate", "adminBooks", "bookStatus", "deleteBook"}

ContinueAdmin ==
    \/ \E k \in Suspended : AdminUsersFind(k)
    \/ \E k \in Suspended : AdminBooksFind(k)
    \/ \E k \in Suspended : RoleUpdateUpdate(k)
    \/ \E k \in Suspended : BookStatusUpdate(k)

\* The admin routes, one request after another, over books and orders that
\* a librarian has posted and a user has placed.
NextAdmin ==
    \/ AllIdle /\ \E body \in BookBodies : PostBook("librarian@gmail.com", body)
    \/ AllIdle /\ \E body \in OrderBodies(BookIds) : Place("user@gmail.com", body)
    \/ AllIdle /\ \E email \in AdminRequesters : AdminUsersGate(email)
    \/ AllIdle /\ \E email \in AdminRequesters : AdminBooksGate(email)
    \/ AllIdle /\ \E email \in AdminRequesters, id \in UserIds, role \in RoleValues :
                      RoleUpdateGate(email, id, role)
    \/ AllIdle /\ \E email \in AdminRequesters, id \in BookIds, status \in BookStatuses :
                      BookStatusGate(email, id, status)
    \/ AllIdle /\ \E email \in AdminRequesters, id \in BookIds : DeleteBookGate(email, id)
    \/ ContinueAdmin
    \/ ContinueDelete

SpecAdmin == Init /\ [][NextAdmin]_vars

(***************************************************************************)
(* Roles over time: the admin has logged in, the librarian logs in, posts  *)
(* books, places and cancels or pays orders and keeps a wishlist, and the  *)
(* admin updates the librarian's role; one request after another.          *)
(***************************************************************************)
InitRoles ==
    /\ users = {u \in ProvisionedUsers : u.email = "admin@gmail.com"}
    /\ books = {}
    /\ orders = {}
    /\ nextId = [users |-> 2, books |-> 1, orders |-> 1, wishlists |-> 1]
    /\ adminEmails = {"admin@gmail.com"}
    /\ librarianEmails = {"librarian@gmail.com"}
    /\ inflight = EmptyBag
    /\ out = NoResponse
    /\ wishlists = {}
    /\ now = 0

ContinueRoles ==
    \/ \E k \in Suspended : LoginInsert(k)
    \/ \E k \in Suspended : RoleUpdateUpdate(k)
    \/ \E k \in Suspended : UserOrderUpdate(k)
    \/ \E k \in Suspended : WishAddInsert(k)

NextRoles ==
    \/ AllIdle /\ LoginFind("librarian@gmail.com", "Ada", "")
    \/ AllIdle /\ \E role \in {"user", "librarian"} :
                      RoleUpdateGate("admin@gmail.com", toString(2), role)
    \/ AllIdle /\ \E body \in BookBodies : PostBook("librarian@gmail.com", body)
    \/ AllIdle /\ \E id \in BookIds : Place("librarian@gmail.com", [bookId |-> id])
    \/ AllIdle /\ \E op \in {"cancel", "pay"}, id \in OrderIds :
                      UserOrderFind(op, "librarian@gmail.com", id)
    \/ AllIdle /\ \E id \in BookIds : WishAddFind("librarian@gmail.com", id)
    \/ ContinueRoles

SpecRoles == InitRoles /\ [][NextRoles]_vars

(***************************************************************************)
(* Cascade delete with other requests in flight: books are posted, orders  *)
(* are placed and books are deleted with up to MaxInflight handlers        *)
(* suspended together; every book id is written as _id.toString() gives it.*)
(***************************************************************************)
NextCascadeRace ==
    \/ \E email \in Members, body \in BookBodies : PostBook(email, body)
    \/ \E email \in Members, id \in BookIds : Place(email, [bookId |-> id])
    \/ \E email \in Deleters, id \in BookIds : DeleteBookGate(email, id)
    \/ ContinueDelete

SpecCascadeRace == Init /\ [][NextCascadeRace]_vars

(***************************************************************************)
(* Role-gated writes with role updates in flight: the librarian posts and  *)
(* edits a book, the admin changes its status, and the admin sets the role *)
(* of the admin's own User or of the librarian's to user, with up to       *)
(* MaxInflight handlers suspended together.                                *)
(***************************************************************************)
NextRoleRace ==
    \/ \E body \in BookBodies : PostBook("librarian@gmail.com", body)
    \/ \E id \in BookIds :
           PatchBookGate("librarian@gmail.com", id,
                         [status |-> "unpublished", title |-> "Ulysses"])
    \/ \E id \in BookIds : BookStatusGate("admin@gmail.com", id, "unpublished")
    \/ \E id \in {toString(1), toString(2)} : RoleUpdateGate("admin@gmail.com", id, "user")
    \/ \E k \in Suspended : PatchBookUpdate(k)
    \/ \E k \in Suspended : BookStatusUpdate(k)
    \/ \E k \in Suspended : RoleUpdateUpdate(k)

SpecRoleRace == Init /\ [][NextRoleRace]_vars

(***************************************************************************)
(* Owners over time: books are posted and orders are placed with bodies    *)
(* that name another owner, the librarian edits and the admin changes the  *)
(* status of books, orders are cancelled, paid and shipped; one request    *)
(* after another.                                                          *)
(***************************************************************************)
\* const { status, title, author, price, description } = req.body: the
\* fields of the body that the update sets.
PatchFieldsWhole(body) == body
PatchFields(body) == [f \in {"status", "title"} |-> body[f]]

\* Bodies that carry a librarianEmail.
OwnedBookBodies ==
    {[status |-> "published", title |-> "Emma", librarianEmail |-> "admin@gmail.com"]}
OwnedPatchBodies ==
    {[status |-> "unpublished", title |-> "Ulysses", librarianEmail |-> "user@gmail.com"]}

NextOwners ==
    \/ AllIdle /\ \E email \in Members, body \in OwnedBookBodies : PostBook(email, body)
    \/ AllIdle /\ \E id \in BookIds, body \in OwnedPatchBodies :
                      PatchBookGate("librarian@gmail.com", id, PatchFields(body))
    \/ AllIdle /\ \E id \in BookIds, status \in BookStatuses :
                      BookStatusGate("admin@gmail.com", id, status)
    \/ AllIdle /\ \E body \in OrderBodies(BookIds) : Place("user@gmail.com", body)
    \/ AllIdle /\ \E op \in {"cancel", "pay"}, id \in OrderIds :
                      UserOrderFind(op, "user@gmail.com", id)
    \/ AllIdle /\ \E id \in OrderIds : UpdateStatusGate("librarian@gmail.com", id, "shipped")
    \/ ContinueBooks
    \/ ContinueOrders

SpecOwners == Init /\ [][NextOwners]_vars

(***************************************************************************)
(* Claims about login.                                                     *)
(***************************************************************************)

\* C1: in every reachable state the users collection holds at most one User
\* per email, also when logins for the same email are in flight together.
C1_OneUserPerEmail ==
    \A u1 \in users, u2 \in users : u1.email = u2.email => u1 = u2

\* The users of email e.
UsersOf(us, e) == {u \in us : u.email = e}

\* A step in which a login answers.
LoginAnswers == out'.op = "login" /\ (out' # out \/ users' # users)

\* C2: with logins run one after another, a login for an unseen email inserts
\* exactly one User and answers with it; a login for an email that has a User
\* inserts nothing, leaves the stored Users as they are and answers with the
\* stored User; no email ever has two Users.
C2_LoginIdempotentInSequence ==
    /\ [](\A e \in Emails : Cardinality(UsersOf(users, e)) <= 1)
    /\ [][LoginAnswers =>
             LET e == out'.email IN
             IF UsersOf(users, e) = {}
             THEN /\ \E u \in users' : /\ users' = users \cup {u}
                                       /\ u \notin users
                                       /\ u.email = e
                                       /\ out'.user = {UserJson(u)}
             ELSE /\ users' = users
                  /\ \E u \in UsersOf(users, e) : out'.user = {UserJson(u)}]_vars

\* Two Users exist and the last answer is again the first User: a repeat login.
C2_Witness ==
    /\ nextId.users = 3
    /\ inflight = EmptyBag
    /\ \E u \in out.user : u._id = toString(1) /\ u.name = "Anonymous"

\* C3: the role of a User created at login is admin when its email is in the
\* admin list (also when it is in the librarian list too), else librarian
\* when it is in the librarian list, else user.
C3_RoleFromAllowLists ==
    \A u \in users :
        /\ u.email \in adminEmails => u.role = "admin"
        /\ u.email \notin adminEmails /\ u.email \in librarianEmails => u.role = "librarian"
        /\ u.email \notin adminEmails /\ u.email \notin librarianEmails => u.role = "user"

\* A User whose email is in both lists, and one in the librarian list only.
C3_Witness ==
    /\ \E u \in users : u.email \in adminEmails \cap librarianEmails /\ u.role = "admin"
    /\ \E u \in users : u.email \in librarianEmails \ adminEmails /\ u.role = "librarian"

(***************************************************************************)
(* Claims about the books routes.                                          *)
(***************************************************************************)

\* The handler k takes its step.
Steps(k) == k \in Suspended /\ CopiesIn(k, inflight') < CopiesIn(k, inflight)

HasRole(email, role) == \E u \in users : u.email = email /\ u.role = role

\* C4: when the cascade delete of a book id has completed, no Order names a
\* book id that is this book's and no Book has the id, whatever the books and
\* orders were before the request.
C4_DeleteCascadeLeavesNoReference ==
    [][\A k \in Suspended :
          k.op = "deleteBook" /\ k.pc = "deleteOne" /\ Steps(k) =>
             /\ \A o \in orders' : ObjectId(o.bookId) # ObjectId(k.id)
             /\ BookById(books', ObjectId(k.id)) = {}]_vars

\* C5: the update of PATCH /librarian/books/:id on a book of another
\* principal answers success false and leaves the book as it is; the
\* requester of an update has the role librarian and the update changes no
\* book of another principal; a book's title changes only in the update of
\* its owner, and any other change of a book is the admin's status change.
C5_UpdateOwnedOnly ==
    [][/\ \A k \in Suspended :
             k.op = "patchBook" /\ Steps(k) =>
                /\ HasRole(k.email, "librarian")
                /\ \A b \in books : b.librarianEmail # k.email => b \in books'
                /\ (\E b \in BookById(books, ObjectId(k.id)) : b.librarianEmail # k.email)
                      => /\ books' = books
                         /\ out' = Response("patchBook", k.email, 200, FALSE)
       /\ out' # out /\ out'.op = "patchBook" /\ out'.status = 403 => books' = books
       /\ \A b \in books, b2 \in books' :
             b2._id = b._id /\ b2 # b =>
                \/ \E k \in Suspended :
                      /\ Steps(k)
                      /\ k.op = "patchBook"
                      /\ k.email = b.librarianEmail
                      /\ ObjectId(k.id) = b._id
                      /\ HasRole(k.email, "librarian")
                \/ \E k \in Suspended :
                      /\ Steps(k)
                      /\ k.op = "bookStatus"
                      /\ HasRole(k.email, "admin")
                      /\ b2 = [b EXCEPT !.status = k.arg]]_vars

\* The librarian's update of the plain user's book, the only book there has
\* been, has answered success false.
C5_Witness ==
    /\ out = Response("patchBook", "librarian@gmail.com", 200, FALSE)
    /\ nextId.books = 2
    /\ \E b \in books : b.librarianEmail = "user@gmail.com"

(***************************************************************************)
(* Claims about the orders routes.                                         *)
(***************************************************************************)

\* The book the order of handler k names exists and is another principal's.
ForeignBook(k) ==
    \E b \in BookById(books, ObjectId(k.bookId)) : b.librarianEmail # k.email

\* C6: updateStatus by a librarian who does not own the book the order names
\* answers 403 and changes no order, with a status that is valid; no step of
\* the handler before the update changes an order.
C6_UpdateStatusForeignBookForbidden ==
    [][\A k \in Suspended :
          k.op = "updateStatus" /\ Steps(k) =>
             /\ k.arg \in validStatus
             /\ k.pc # "updateOne" => orders' = orders
             /\ k.pc = "findBook" /\ ForeignBook(k) =>
                   /\ out' = Response("updateStatus", k.email, 403, FALSE)
                   /\ inflight' = EmptyBag
             /\ k.pc = "updateOne" => ~ForeignBook(k)]_vars

\* The librarian has been answered 403 for the only order, whose book is the
\* plain user's.
C6_Witness ==
    /\ out = Response("updateStatus", "librarian@gmail.com", 403, FALSE)
    /\ \E o \in orders : \E b \in BookById(books, ObjectId(o.bookId)) :
          b.librarianEmail = "user@gmail.com" /\ o.status = "pending"
    /\ nextId.orders = 2

\* C7: updateStatus by a librarian with a valid status answers 404 and
\* changes no order when the order id names no order, and also when the order
\* exists and the book it names does not.
C7_UpdateStatusNotFound ==
    [][\A k \in Suspended :
          /\ k.op = "updateStatus"
          /\ Steps(k)
          /\ \/ k.pc = "findOrder" /\ OrderById(orders, ObjectId(k.id)) = {}
             \/ k.pc = "findBook" /\ BookById(books, ObjectId(k.bookId)) = {}
          => /\ out' = Response("updateStatus", k.email, 404, FALSE)
             /\ orders' = orders]_vars

\* cancel or pay run to its end on the collection os, as one request.
RunUserOrder(os, op, email, id) ==
    IF \E found \in FindOne(OrderById(os, ObjectId(id))) : NotOwnOrder(found, email)
    THEN os
    ELSE SetOrderField(os, ObjectId(id), UserSets(op).field, UserSets(op).value)

\* C8: pay and cancel are idempotent on the store: for every order id and
\* principal, the request run twice in sequence leaves the orders that one
\* run leaves.
\* The update of a suspended cancel or pay handler leaves what the run leaves.
C8_PayCancelIdempotent ==
    /\ [](\A op \in {"cancel", "pay"}, email \in Emails, id \in OrderIds :
            LET once == RunUserOrder(orders, op, email, id)
            IN  RunUserOrder(once, op, email, id) = once)
    /\ [][\A k \in Suspended :
             k.op \in {"cancel", "pay"} /\ Steps(k) =>
                /\ orders' = RunUserOrder(orders, k.op, k.email, k.id)
                /\ RunUserOrder(orders', k.op, k.email, k.id) = orders']_vars

\* A second cancel of the order's own user has found nothing to modify.
C8_Witness ==
    /\ out.op = "cancel" /\ out.status = 200 /\ ~out.success
    /\ \E o \in orders : o.email = out.email /\ o.status = "cancelled"
    /\ nextId.orders = 2

\* The order the suspended cancel or pay handler k has found is the
\* requester's own.
OwnOrderFound(k) ==
    \E o \in OrderById(orders, ObjectId(k.id)) : o.email = k.email

\* C9: cancel and pay change an order only when the order's email is the
\* requester's: for a missing order or another user's order the answer is 403
\* and no order changes; a step that makes an order paid or cancelled is the
\* update of a pay or cancel request of the order's own user, and changes
\* that field of that order alone.
C9_OnlyOwnUserCancelsPays ==
    /\ [](\A k \in Suspended : k.op \in {"cancel", "pay"} => OwnOrderFound(k))
    /\ [][/\ out' # out /\ out'.op \in {"cancel", "pay"} /\ inflight' = inflight
              => out'.status = 403 /\ orders' = orders
          /\ \A o \in orders, o2 \in orders' :
                o2._id = o._id /\ o2 # o =>
                  /\ o2.paymentStatus # o.paymentStatus =>
                        /\ o2 = [o EXCEPT !.paymentStatus = "paid"]
                        /\ \E k \in Suspended :
                              k.op = "pay" /\ k.email = o.email /\ ObjectId(k.id) = o._id
                  /\ o2.status # o.status /\ o2.status = "cancelled" =>
                        /\ o2 = [o EXCEPT !.status = "cancelled"]
                        /\ \E k \in Suspended :
                              k.op = "cancel" /\ k.email = o.email /\ ObjectId(k.id) = o._id]_vars

\* The librarian has been answered 403 on paying the plain user's order, which
\* is still unpaid.
C9_Witness ==
    /\ out = Response("pay", "librarian@gmail.com", 403, FALSE)
    /\ \E o \in orders : o.email = "user@gmail.com" /\ o.paymentStatus = "unpaid"
    /\ nextId.orders = 2

\* C10: the order that place stores has status pending, paymentStatus unpaid
\* and the email of the verified principal, whatever the body carries for
\* these fields.
C10_PlaceForcesFields ==
    [][\A o \in orders' :
          (\A old \in orders : old._id # o._id) =>
             /\ out'.op = "place"
             /\ o.email = out'.email
             /\ o.status = "pending"
             /\ o.paymentStatus = "unpaid"]_vars

\* The plain user has placed an order.
C10_Witness ==
    /\ out = Response("place", "user@gmail.com", 200, TRUE)
    /\ \E o \in orders :
          /\ o._id = nextId.orders - 1
          /\ o.email = "user@gmail.com"
          /\ o.status = "pending"
          /\ o.paymentStatus = "unpaid"

\* C11: once an order's status is cancelled or delivered, no step of a
\* cancel, pay or updateStatus request of any principal changes that status.
C11_CancelledDeliveredAreFinal ==
    [][\A o \in orders, o2 \in orders' :
          o2._id = o._id /\ o.status \in {"cancelled", "delivered"} =>
             o2.status = o.status]_vars

\* The place of a status on the librarian's path pending, shipped, delivered.
Rank(status) ==
    IF status = "pending" THEN 0 ELSE IF status = "shipped" THEN 1 ELSE 2

\* C12: the update of an updateStatus request moves an order's status forward
\* only along pending, shipped, delivered: never to an earlier status and
\* never from pending to delivered.
C12_UpdateStatusForwardOnly ==
    [][\A k \in Suspended :
          k.op = "updateStatus" /\ Steps(k) =>
             \A o \in orders, o2 \in orders' :
                o2._id = o._id /\ o.status \in validStatus =>
                   /\ o2.status \in validStatus
                   /\ Rank(o2.status) >= Rank(o.status)
                   /\ Rank(o2.status) <= Rank(o.status) + 1]_vars

(***************************************************************************)
(* Claims about the catalogue.                                             *)
(***************************************************************************)

\* C13: the answer of GET /books holds exactly the books whose status is
\* published when the request is served, each once and as stored: no book of
\* another status is in it and no published book is missing.
C13_ListPublishedExact ==
    [][out'.op = "listPublished" =>
          /\ \A item \in out'.items :
                /\ item.status = "published"
                /\ \E b \in books' : item = BookJson(b)
          /\ \A b \in books' :
                b.status = "published" => BookJson(b) \in out'.items
          /\ Cardinality(out'.items) = Cardinality({b \in books' : b.status = "published"})]_vars

\* The answer holds a book that was posted as a draft and has been published
\* since, and leaves out a book that is a draft.
C13_Witness ==
    /\ out.op = "listPublished"
    /\ \E item \in out.items : item.title = "Emma" /\ item._id = toString(1)
    /\ \E b \in books : b.status = "draft" /\ BookJson(b) \notin out.items

\* C14: the answer of GET /books/latest holds at most 6 books, each of them
\* published and none twice, in non-increasing order of createdAt, and no
\* published book left out is newer than a book of the answer.
C14_ListLatestNewestSix ==
    [][out'.op = "listLatest" =>
          LET r == out'.sorted IN
          /\ Len(r) <= 6
          /\ \A i \in 1..Len(r) :
                /\ r[i].status = "published"
                /\ \E b \in books' : r[i] = BookJson(b)
          /\ \A i, j \in 1..Len(r) : i < j =>
                r[i].createdAt >= r[j].createdAt /\ r[i]._id # r[j]._id
          /\ \A b \in books' :
                b.status = "published" /\ (\A i \in 1..Len(r) : r[i] # BookJson(b)) =>
                   /\ Len(r) = 6
                   /\ \A i \in 1..Len(r) : b.createdAt <= r[i].createdAt]_vars

\* Seven books are published and the answer holds six of them, two of the
\* same createdAt among them.
C14_Witness ==
    /\ out.op = "listLatest"
    /\ Len(out.sorted) = 6
    /\ Cardinality({b \in books : b.status = "published"}) = 7
    /\ \E i \in 1..5 : out.sorted[i].createdAt = out.sorted[i + 1].createdAt

(***************************************************************************)
(* Claims about invoices.                                                  *)
(***************************************************************************)

\* C15: the answer of GET /users/invoices holds exactly one invoice for each
\* order of the caller that is paid and none for another order; the invoice
\* of an order placed for a book has the book's price as its amount and the
\* last 8 characters of the order id, in upper case, as its paymentId.
C15_InvoicesOfPaidOrders ==
    [][out'.op = "invoices" /\ out' # out =>
          /\ \A o \in orders :
                o.email = out'.email /\ o.paymentStatus = "paid" =>
                   Cardinality({i \in out'.items : i._id = toString(o._id)}) = 1
          /\ \A i \in out'.items :
                \E o \in orders :
                   /\ i._id = toString(o._id)
                   /\ o.email = out'.email
                   /\ o.paymentStatus = "paid"
                   /\ i.paymentId = [last |-> 8, of |-> o._id, case |-> "upper"]
                   /\ \A b \in BookById(books, ObjectId(o.bookId)) : i.amount = b.price]_vars

(***************************************************************************)
(* Claims about the wishlist.                                              *)
(***************************************************************************)

\* The items of the pair (email, bookId).
ItemsOf(ws, email, bookId) == {w \in ws : w.email = email /\ w.bookId = bookId}

\* C16: with requests run one after another, an add for a pair that has an
\* item answers 400 and inserts nothing: an add that answers 400 changes no
\* item, a handler goes on to insert only for a pair without an item, an
\* insert adds one item; and the list of a principal then holds exactly one
\* entry for each book the principal has added.
C16_SecondAddConflicts ==
    /\ [](\A k \in Suspended :
             k.op = "wishAdd" => ItemsOf(wishlists, k.email, k.bookId) = {})
    /\ [][/\ out'.op = "wishAdd" /\ out'.status = 400 => wishlists' = wishlists
          /\ \A w \in wishlists' \ wishlists :
                /\ ItemsOf(wishlists, w.email, w.bookId) = {}
                /\ wishlists' = wishlists \cup {w}
                /\ out' = Response("wishAdd", w.email, 200, TRUE)
          /\ out'.op = "wishList" /\ out' # out =>
                /\ \A w \in wishlists : w.email = out'.email =>
                      Cardinality({i \in out'.items : i.bookId = w.bookId}) = 1
                /\ \A i \in out'.items :
                      \E w \in wishlists : w.email = out'.email /\ i._id = toString(w._id)]_vars

\* The plain user's second add of the book has been answered 400, and the
\* one item ever inserted is the user's item for the book.
C16_Witness ==
    /\ out = Response("wishAdd", "user@gmail.com", 400, FALSE)
    /\ nextId.wishlists = 2
    /\ Cardinality(ItemsOf(wishlists, "user@gmail.com", toString(1))) = 1

\* C17: in every reachable state wishlists holds at most one item for a pair
\* of email and bookId, also when adds for the same pair are in flight
\* together.
C17_OneItemPerPair ==
    \A w1 \in wishlists, w2 \in wishlists :
        w1.email = w2.email /\ w1.bookId = w2.bookId => w1 = w2

(***************************************************************************)
(* Claims about the admin routes and roles.                                *)
(***************************************************************************)

\* C18: a request to an admin route by a principal that has no User or whose
\* User is not an admin is answered 403 and changes no user, book or order:
\* a 403 of an admin route changes nothing, an admin route goes past its role
\* test and answers otherwise than 403 only for a requester that is an admin,
\* and a step of an admin route's handler is a step for an admin.
C18_AdminRoutesForbidden ==
    /\ [](\A k \in Suspended : k.op \in AdminOps => HasRole(k.email, "admin"))
    /\ [][/\ out'.op \in AdminOps /\ out'.status = 403 /\ out' # out =>
                users' = users /\ books' = books /\ orders' = orders
          /\ out'.op \in AdminOps /\ out' # out /\ ~HasRole(out'.email, "admin") =>
                out' = Response(out'.op, out'.email, 403, FALSE) /\ inflight' = inflight
          /\ \A k \in Suspended' \ Suspended :
                k.op \in AdminOps => HasRole(k.email, "admin")
          /\ users' # users \/ books' \notin {books, books \cup (books' \ books)}
                \/ orders' \notin {orders, orders \cup (orders' \ orders)} =>
                \E k \in Suspended :
                   Steps(k) /\ k.op \in AdminOps /\ HasRole(k.email, "admin")]_vars

\* The cascade delete asked by a principal that has never logged in has been
\* answered 403, and the book and the order on it are there.
C18_Witness ==
    /\ out = Response("deleteBook", "ghost@gmail.com", 403, FALSE)
    /\ \E b \in books : \E o \in orders : ObjectId(o.bookId) = b._id

\* C19: the role of a User changes only in the update of the admin's role
\* update that names the User, to the role the request carries; no other step
\* changes the role of a User there is, and no User is ever deleted.
C19_RoleChangesOnlyByRoleUpdate ==
    [][\A u \in users :
          /\ \E u2 \in users' : u2._id = u._id
          /\ \A u2 \in users' :
                u2._id = u._id /\ u2.role # u.role =>
                   \E k \in Suspended :
                      /\ Steps(k)
                      /\ k.op = "roleUpdate"
                      /\ ObjectId(k.id) = u._id
                      /\ u2 = [u EXCEPT !.role = k.arg]]_vars

\* The librarian, whose role the admin has set to user, has logged in again
\* and is answered with the role user; a book, an order and a wishlist item
\* of the librarian are there.
C19_Witness ==
    /\ out.op = "login"
    /\ \E u \in out.user :
          u.email = "librarian@gmail.com" /\ u.email \in librarianEmails /\ u.role = "user"
    /\ \E u \in users : u.email = "librarian@gmail.com" /\ u.role = "user"
    /\ books # {} /\ orders # {} /\ wishlists # {}

\* C20: in every reachable state the role of every User is one of user,
\* librarian, admin, whatever role the role updates carry.
C20_RoleIsOneOfThree ==
    \A u \in users : u.role \in {"user", "librarian", "admin"}

(***************************************************************************)
(* Claims about the creation of orders, the statuses a librarian sets and  *)
(* the answers of the handlers.                                            *)
(***************************************************************************)

\* C21: an order that place inserts names, when it is inserted, a book that
\* is in the books collection.
C21_PlacedOrderNamesABook ==
    [][\A o \in orders' :
          (\A old \in orders : old._id # o._id) =>
             BookById(books, ObjectId(o.bookId)) # {}]_vars

\* C22: updateStatus takes only pending, shipped and delivered: no handler of
\* it goes past the status test with another value, its answer 400 changes no
\* order and ends the request, its update sets one of the three, and a step
\* that makes an order cancelled is the update of a cancel request.
C22_UpdateStatusTakesThreeStatuses ==
    /\ [](\A k \in Suspended :
             k.op = "updateStatus" => k.arg \in {"pending", "shipped", "delivered"})
    /\ [][/\ out'.op = "updateStatus" /\ out'.status = 400 /\ out' # out =>
                orders' = orders /\ inflight' = inflight
          /\ \A o \in orders, o2 \in orders' :
                o2._id = o._id /\ o2.status # o.status =>
                   \/ \E k \in Suspended :
                         /\ Steps(k)
                         /\ k.op = "updateStatus"
                         /\ o2.status = k.arg
                         /\ o2.status \in {"pending", "shipped", "delivered"}
                   \/ \E k \in Suspended :
                         Steps(k) /\ k.op = "cancel" /\ o2.status = "cancelled"]_vars

\* The librarian's request on the order for the librarian's own book has
\* been answered 400, and the order is pending.
C22_Witness ==
    /\ out = Response("updateStatus", "librarian@gmail.com", 400, FALSE)
    /\ \E o \in orders : \E b \in BookById(books, ObjectId(o.bookId)) :
          b.librarianEmail = "librarian@gmail.com" /\ o.status = "pending"

\* C23: a handler that ends has sent a response for its request, with one of
\* the statuses of the error taxonomy or 200: no handler ends without a
\* response, also when the entity it has looked up is missing.
C23_HandlerEndsWithAResponse ==
    [][\A k \in Suspended :
          Steps(k) /\ BagCardinality(inflight') < BagCardinality(inflight) =>
             /\ out'.op = k.op
             /\ out'.email = k.email
             /\ out'.status \in {200, 400, 401, 403, 404, 500}]_vars

(***************************************************************************)
(* Claims about requests in flight together.                               *)
(***************************************************************************)

\* C24: the cascade delete is two store calls: the first removes the orders
\* that name the book id and leaves the books, and the handler then waits for
\* the second, which removes the book and leaves the orders; an order placed
\* for the book between the two stays, naming a book that is gone.
C24_CascadeIsTwoStoreCalls ==
    [][\A k \in Suspended :
          k.op = "deleteBook" /\ Steps(k) =>
             /\ k.pc = "deleteMany" =>
                   /\ books' = books
                   /\ orders' = {o \in orders : o.bookId # k.id}
                   /\ [k EXCEPT !.pc = "deleteOne"] \in Suspended'
             /\ k.pc = "deleteOne" =>
                   /\ orders' = orders
                   /\ books' = {b \in books : b._id # ObjectId(k.id)}]_vars

\* Every request has completed and the last answer is the cascade delete's,
\* which found the book to delete; the book is gone and an order names it:
\* the order was placed after the delete's first store call, which would have
\* removed it, and before its second.
C24_Witness ==
    /\ inflight = EmptyBag
    /\ out = Response("deleteBook", "admin@gmail.com", 200, TRUE)
    /\ nextId.books = 2
    /\ books = {}
    /\ \E o \in orders : o.bookId = toString(1)

\* C25: a write of a role-gated route is applied only for a requester that
\* holds the role when the write is applied: a step of an admin route's
\* handler that changes a user, a book or an order is a step for a requester
\* that is an admin then, and a step of a librarian route's handler that
\* changes a book or an order is a step for a requester that is a librarian
\* then, also when a role update has run since the handler's role test.
C25_RoleHeldWhenWriteApplied ==
    [][\A k \in Suspended :
          Steps(k) /\ (users' # users \/ books' # books \/ orders' # orders) =>
             /\ k.op \in AdminOps => HasRole(k.email, "admin")
             /\ k.op \in {"patchBook", "updateStatus"} => HasRole(k.email, "librarian")]_vars

(***************************************************************************)
(* Claims about owners.                                                    *)
(***************************************************************************)

\* C26: the librarianEmail of a book that is inserted is the verified email
\* of the request, whatever librarianEmail the body carries, and no step
\* changes the librarianEmail of a book there is; no step changes the email
\* or the bookId of an order there is.
C26_OwnersNeverChange ==
    [][/\ \A b \in books' :
             (\A old \in books : old._id # b._id) =>
                out'.op = "postBook" /\ b.librarianEmail = out'.email
       /\ \A b \in books, b2 \in books' :
             b2._id = b._id => b2.librarianEmail = b.librarianEmail
       /\ \A o \in orders, o2 \in orders' :
             o2._id = o._id => o2.email = o.email /\ o2.bookId = o.bookId]_vars

\* The librarian's book, posted with a body that names the admin as owner,
\* has been edited with a body that names the plain user and has then had
\* its status changed by the admin; the plain user's order has been shipped
\* and paid.
C26_Witness ==
    /\ out = Response("bookStatus", "admin@gmail.com", 200, TRUE)
    /\ \E b \in books :
          b.librarianEmail = "librarian@gmail.com" /\ b.title = "Ulysses"
             /\ b.status = "published"
    /\ \E o \in orders :
          o.email = "user@gmail.com" /\ o.status = "shipped" /\ o.paymentStatus = "paid"

====
